---- MODULE Spec2Model ----
(***************************************************************************)
(* Lineage explorer: the graph builder of DataLineageGraph.tsx (table map, *)
(* bypass edges for hidden nodes, level assignment, node and edge          *)
(* emission), the hide / reveal handlers, and the cascading filters of     *)
(* DataLineageFilters.tsx with the row filtering of Index.tsx, the file    *)
(* loading of Index.tsx, the persisted view state of useLineageState, the  *)
(* position changes of dragged nodes and the pagination of CsvTable.tsx.   *)
(*                                                                         *)
(* JavaScript arrays, Maps and Sets are modelled as sequences in their     *)
(* insertion order, because the code iterates them in that order.          *)
(***************************************************************************)
EXTENDS Integers, Sequences, FiniteSets, TLC

VARIABLES
    csvData,        \* Index.tsx csvData: the loaded grid, csvData[1] is the header row
    filters,        \* Index.tsx filters: column name -> array of selected values
    hiddenNodes,    \* the hiddenNodes prop: a JS Set, kept in insertion order
    nodes,          \* DataLineageGraph nodes state (setNodes(initialNodes))
    edges,          \* DataLineageGraph edges state (setEdges(initialEdges))
    levels,         \* the levels Map (and visited Set) left by the last graph build
    undo,           \* history: what the last operation found (edges before a hide,
                    \* selection before a select all, item of the store at a mount)
    intended,       \* history: the hidden set the hide / reveal sequence asks for
    selectedFile,   \* Index.tsx selectedFile
    reading,        \* the file a Generate Lineage in progress is reading (isProcessing)
    showResults,    \* Index.tsx showResults
    showLineageGraph, \* Index.tsx showLineageGraph
    toast,          \* the last toast shown
    state,          \* useLineageState state of the mounted graph component
    committedCsvHash, \* the currentCsvHash of the last commit, which the hash
                    \* effect compares the next one with
    stored,         \* the item 'lineageState' of localStorage
    currentPage     \* CsvTable.tsx currentPage

pageVars == <<selectedFile, reading, showResults, showLineageGraph, toast>>

vars == <<csvData, filters, hiddenNodes, nodes, edges, levels, undo, intended,
          selectedFile, reading, showResults, showLineageGraph, toast, state,
          committedCsvHash, stored, currentPage>>

----------------------------------------------------------------------------
(* Bounds and input universes *)

MaxRows == 3
MaxFilterRows == 2
MaxTableRows == 10

Names == {"a", "b", "c"}
Types == {"T1", "T2"}
Rels == {"uses", "reads"}

Header == <<"childTableName", "childTableType", "relationship",
            "parentTableName", "parentTableType">>

\* the cells the headers of the loaded grids are made of
HeaderCells ==
    {"childTableName", "childTableType", "relationship", "parentTableName", "parentTableType",
     "Child Table Name", " Relationship ", "PARENTTABLENAME"}

----------------------------------------------------------------------------
(* Generic array helpers *)

Range(s) == {s[i] : i \in DOMAIN s}

Includes(s, v) == \E i \in DOMAIN s : s[i] = v

\* Array.prototype.indexOf, 1-based; 0 stands for JavaScript's -1
IndexOf(s, v) ==
    LET hits == {i \in DOMAIN s : s[i] = v}
    IN  IF hits = {} THEN 0 ELSE CHOOSE i \in hits : \A j \in hits : i <= j

\* Array.prototype.map: the array of F(s[i]), built element by element
Map(s, F(_)) == [i \in DOMAIN s |-> F(s[i])] \o <<>>

\* Math.min in place of Math.max
MaxOfAsMin(S) == CHOOSE m \in S : \A x \in S : m <= x

\* Math.max(...values) for a non-empty array of values
MaxOf(S) == CHOOSE m \in S : \A x \in S : x <= m

----------------------------------------------------------------------------
(* Strings: String.prototype.toLowerCase, trim and replace(/\s+/g, ''),     *)
(* computed character by character.                                        *)

UpperCaseLetters == "ABCDEFGHIJKLMNOPQRSTUVWXYZ"

LowerCaseLetters == "abcdefghijklmnopqrstuvwxyz"

\* the character at position i of s
CharAt(s, i) == SubSeq(s, i, i)

\* the lower-case form of each upper-case letter
LowerOf ==
    [c \in {CharAt(UpperCaseLetters, i) : i \in 1..Len(UpperCaseLetters)} |->
        CharAt(LowerCaseLetters,
               CHOOSE i \in 1..Len(UpperCaseLetters) : CharAt(UpperCaseLetters, i) = c)]

\* the characters \s matches among those of the model's cells
WhiteSpace == {" ", "\t"}

RECURSIVE lowerCased(_)
lowerCased(h) ==
    IF Len(h) = 0 THEN h
    ELSE (IF Head(h) \in DOMAIN LowerOf THEN LowerOf[Head(h)] ELSE Head(h))
             \o lowerCased(Tail(h))

\* lowerCased, evaluated once for each header cell
LowerCasedCells == [h \in HeaderCells |-> lowerCased(h)]

toLowerCase(h) == IF h \in HeaderCells THEN LowerCasedCells[h] ELSE lowerCased(h)

RECURSIVE trimStart(_)
trimStart(h) ==
    IF Len(h) > 0 /\ Head(h) \in WhiteSpace THEN trimStart(Tail(h)) ELSE h

RECURSIVE trimEnd(_)
trimEnd(h) ==
    IF Len(h) > 0 /\ CharAt(h, Len(h)) \in WhiteSpace
    THEN trimEnd(SubSeq(h, 1, Len(h) - 1)) ELSE h

trim(h) == trimEnd(trimStart(h))

\* row[i] || '' with i = 0 standing for an index that was not found
Cell(row, i) == IF i \in DOMAIN row THEN row[i] ELSE ""

----------------------------------------------------------------------------
(* DataLineageGraph.tsx: tableData *)

columnIndexes(csv) ==
    LET headers == Map(csv[1], LAMBDA h : trim(toLowerCase(h)))
    IN  [childTableName |-> IndexOf(headers, "childtablename"),
         childTableType |-> IndexOf(headers, "childtabletype"),
         relationship |-> IndexOf(headers, "relationship"),
         parentTableName |-> IndexOf(headers, "parenttablename"),
         parentTableType |-> IndexOf(headers, "parenttabletype")]

tableData(csv) ==
    IF Len(csv) = 0 THEN <<>>
    ELSE LET ci == columnIndexes(csv)
         IN  IF \E k \in DOMAIN ci : ci[k] = 0 THEN <<>>
             ELSE Map(Tail(csv), LAMBDA row :
                     [childTableName |-> Cell(row, ci.childTableName),
                      childTableType |-> Cell(row, ci.childTableType),
                      relationship |-> Cell(row, ci.relationship),
                      parentTableName |-> Cell(row, ci.parentTableName),
                      parentTableType |-> Cell(row, ci.parentTableType)])

----------------------------------------------------------------------------
(* DataLineageGraph.tsx: tableMap, a Map in insertion order:               *)
(* keys is the key order, info[k] the value stored under k.                *)
(* A loop that hands an accumulator on binds it as the one element of a    *)
(* set, next \in {...}: the accumulator is a value, computed once, before  *)
(* the next iteration runs.                                                *)

EmptyTableMap == [keys |-> <<>>, info |-> <<>>]

Has(tm, k) == Includes(tm.keys, k)

\* tableMap.set(k, v) for a key that is not yet present
SetNew(tm, k, v) ==
    [keys |-> Append(tm.keys, k),
     info |-> tm.info @@ (k :> v)]

\* one iteration of the tableData.forEach that builds the relationships
AddRelationship(tm, row) ==
    LET tm1 == IF Has(tm, row.parentTableName) THEN tm
               ELSE SetNew(tm, row.parentTableName,
                           [type |-> row.parentTableType, children |-> <<>>, parents |-> <<>>])
        tm2 == IF Has(tm1, row.childTableName) THEN tm1
               ELSE SetNew(tm1, row.childTableName,
                           [type |-> row.childTableType, children |-> <<>>, parents |-> <<>>])
        i3 == [tm2.info EXCEPT ![row.parentTableName].children = Append(@, row.childTableName)]
        i4 == [i3 EXCEPT ![row.childTableName].parents = Append(@, row.parentTableName)]
    IN  [keys |-> tm2.keys, info |-> i4]

RECURSIVE BuildFrom(_, _, _)
BuildFrom(td, i, tm) ==
    IF i > Len(td) THEN tm
    ELSE CHOOSE r \in {BuildFrom(td, i + 1, next) :
                           next \in {AddRelationship(tm, td[i])}} : TRUE

tableMap(td) == BuildFrom(td, 1, EmptyTableMap)

\* hiddenNodes.has
IsHidden(hidden, name) == Includes(hidden, name)

visibleTables(tm, hidden) == SelectSeq(tm.keys, LAMBDA t : ~IsHidden(hidden, t))

----------------------------------------------------------------------------
(* DataLineageGraph.tsx: createBypassEdges.  The three nested forEach      *)
(* loops run over hiddenNodes, the hidden node's parents array and its     *)
(* children array, each in array order.                                    *)

RECURSIVE Flatten(_)
Flatten(ss) == IF Len(ss) = 0 THEN <<>> ELSE Head(ss) \o Flatten(Tail(ss))

\* the bypass edges of a parent that reach every child, hidden or not
BypassForParentAnyChild(tm, hidden, h, parent) ==
    IF IsHidden(hidden, parent) THEN <<>>
    ELSE Map(tm.info[h].children, LAMBDA child :
                [source |-> parent, target |-> child, relationship |-> "via " \o h])

BypassForParent(tm, hidden, h, parent) ==
    IF IsHidden(hidden, parent) THEN <<>>
    ELSE LET kids == SelectSeq(tm.info[h].children, LAMBDA c : ~IsHidden(hidden, c))
         IN  Map(kids, LAMBDA child :
                [source |-> parent, target |-> child, relationship |-> "via " \o h])

BypassForHidden(tm, hidden, h) ==
    IF ~Has(tm, h) THEN <<>>
    ELSE Flatten(Map(tm.info[h].parents, LAMBDA parent : BypassForParent(tm, hidden, h, parent)))

createBypassEdges(tm, hidden) ==
    Flatten(Map(hidden, LAMBDA h : BypassForHidden(tm, hidden, h)))

----------------------------------------------------------------------------
(* DataLineageGraph.tsx: calculateLevel.  The closure state (the levels    *)
(* Map in insertion order and the visited Set) is threaded through the     *)
(* recursion as st; st.ret is the value returned by the call.  st.calls    *)
(* counts the calls made; a call made when the budget is used up returns   *)
(* at once with st.overflow set, which makes a runaway recursion           *)
(* observable.                                                             *)

CallBudget(td) == 4 * Len(td) + 1

InitLevelState == [keys |-> <<>>, val |-> <<>>, visited |-> {}, ret |-> 0,
                   calls |-> 0, overflow |-> FALSE]

\* levels.set(tableName, level) followed by return level
SetLevel(st, tableName, level) ==
    [st EXCEPT !.keys = IF Includes(@, tableName) THEN @ ELSE Append(@, tableName),
               !.val = (tableName :> level) @@ @,
               !.ret = level]

\* levels.get(tableName) || 0
GetLevelOrZero(st, tableName) ==
    IF tableName \in DOMAIN st.val THEN st.val[tableName] ELSE 0

\* calculateLevel without its visited.add
MarkVisitedSkipped(st, tableName) == st

\* visited.add(tableName)
MarkVisited(st, tableName) == [st EXCEPT !.visited = @ \cup {tableName}]

RECURSIVE calculateLevel(_, _, _, _, _)
RECURSIVE MapParents(_, _, _, _, _, _, _)

\* tableInfo.parents.map(parent => calculateLevel(parent, level)): the calls
\* are made left to right; rets collects the returned values
MapParents(tm, budget, st, parents, i, level, rets) ==
    IF i > Len(parents) THEN [st |-> st, rets |-> rets]
    ELSE CHOOSE r \in {MapParents(tm, budget, st1, parents, i + 1, level,
                                  Append(rets, st1.ret)) :
                           st1 \in {calculateLevel(tm, budget, st, parents[i], level)}} : TRUE

calculateLevel(tm, budget, st, tableName, level) ==
    IF st.calls >= budget THEN [st EXCEPT !.overflow = TRUE, !.ret = 0]
    ELSE
    LET st0 == [st EXCEPT !.calls = @ + 1] IN
    IF tableName \in st0.visited THEN [st0 EXCEPT !.ret = GetLevelOrZero(st0, tableName)]
    ELSE
    LET st1 == MarkVisited(st0, tableName) IN
    IF ~Has(tm, tableName) \/ Len(tm.info[tableName].parents) = 0
    THEN SetLevel(st1, tableName, level)
    ELSE LET m == MapParents(tm, budget, st1, tm.info[tableName].parents, 1, level, <<>>)
             maxParentLevel == MaxOf(Range(m.rets))
         IN  SetLevel(m.st, tableName, maxParentLevel + 1)

\* visibleTables.forEach(tableName => calculateLevel(tableName))
RECURSIVE LevelsFrom(_, _, _, _, _)
LevelsFrom(tm, budget, visible, i, st) ==
    IF i > Len(visible) THEN st
    ELSE CHOOSE r \in {LevelsFrom(tm, budget, visible, i + 1, next) :
                           next \in {calculateLevel(tm, budget, st, visible[i], 0)}} : TRUE

calculateLevels(tm, budget, hidden) ==
    LevelsFrom(tm, budget, visibleTables(tm, hidden), 1, InitLevelState)

----------------------------------------------------------------------------
(* DataLineageGraph.tsx: levelGroups and node creation *)

\* the distinct levels in the order in which levels.forEach first meets them
RECURSIVE GroupLevels(_, _, _)
GroupLevels(st, i, acc) ==
    IF i > Len(st.keys) THEN acc
    ELSE LET l == st.val[st.keys[i]]
         IN  GroupLevels(st, i + 1, IF Includes(acc, l) THEN acc ELSE Append(acc, l))

\* levelGroups.get(level): the tables of that level in levels' insertion order
TablesInLevel(st, level) == SelectSeq(st.keys, LAMBDA t : st.val[t] = level)

\* a node whose parents and children arrays are passed on unfiltered
MakeNodeUnfiltered(tm, hidden, positions, tableName, level, index) ==
    [id |-> tableName,
     position |-> IF tableName \in DOMAIN positions THEN positions[tableName]
                  ELSE [x |-> level * 300, y |-> index * 120 + (level % 2) * 60],
     tableName |-> tableName,
     tableType |-> tm.info[tableName].type,
     parents |-> tm.info[tableName].parents,
     children |-> tm.info[tableName].children]

\* one node of the nodes array; index is the 0-based index within the level
MakeNode(tm, hidden, positions, tableName, level, index) ==
    [id |-> tableName,
     position |-> IF tableName \in DOMAIN positions THEN positions[tableName]
                  ELSE [x |-> level * 300, y |-> index * 120 + (level % 2) * 60],
     tableName |-> tableName,
     tableType |-> tm.info[tableName].type,
     parents |-> SelectSeq(tm.info[tableName].parents, LAMBDA q : ~IsHidden(hidden, q)),
     children |-> SelectSeq(tm.info[tableName].children, LAMBDA q : ~IsHidden(hidden, q))]

\* the nodes of a level without the test for hidden tables
NodesOfLevelWithHidden(tm, hidden, positions, st, level) ==
    LET tablesInLevel == TablesInLevel(st, level)
    IN  [i \in DOMAIN tablesInLevel |->
            MakeNode(tm, hidden, positions, tablesInLevel[i], level, i - 1)] \o <<>>

NodesOfLevel(tm, hidden, positions, st, level) ==
    LET tablesInLevel == TablesInLevel(st, level)
        made == [i \in DOMAIN tablesInLevel |->
                   IF IsHidden(hidden, tablesInLevel[i]) THEN <<>>
                   ELSE <<MakeNode(tm, hidden, positions, tablesInLevel[i], level, i - 1)>>]
    IN  Flatten(made \o <<>>)

createNodes(tm, hidden, positions, st) ==
    LET groups == GroupLevels(st, 1, <<>>)
    IN  Flatten(Map(groups, LAMBDA level : NodesOfLevel(tm, hidden, positions, st, level)))

----------------------------------------------------------------------------
(* DataLineageGraph.tsx: edge creation.  An edge id is the pair of its     *)
(* prefix and the value of edgeIndex when it was pushed.                   *)

\* original edges that skip a row whose parent/child pair was seen before
originalEdgesDeduplicated(td, hidden) ==
    LET keptIdx == {i \in DOMAIN td :
                      /\ ~IsHidden(hidden, td[i].childTableName)
                      /\ ~IsHidden(hidden, td[i].parentTableName)
                      /\ \A j \in 1..(i - 1) :
                            \/ td[j].childTableName # td[i].childTableName
                            \/ td[j].parentTableName # td[i].parentTableName}
        kept == SelectSeq([i \in DOMAIN td |-> [row |-> td[i], i |-> i]] \o <<>>,
                          LAMBDA x : x.i \in keptIdx)
    IN  [i \in DOMAIN kept |->
           [id |-> <<"e-", i - 1>>,
            source |-> kept[i].row.parentTableName,
            target |-> kept[i].row.childTableName,
            relationship |-> kept[i].row.relationship]] \o <<>>

originalEdges(td, hidden) ==
    LET kept == SelectSeq(td, LAMBDA r : ~IsHidden(hidden, r.childTableName)
                                         /\ ~IsHidden(hidden, r.parentTableName))
    IN  [i \in DOMAIN kept |->
           [id |-> <<"e-", i - 1>>,
            source |-> kept[i].parentTableName,
            target |-> kept[i].childTableName,
            relationship |-> kept[i].relationship]] \o <<>>

createEdges(td, hidden, bypassEdges) ==
    LET orig == originalEdges(td, hidden)
        byp == [i \in DOMAIN bypassEdges |->
                  [id |-> <<"e-bypass-", Len(orig) + i - 1>>,
                   source |-> bypassEdges[i].source,
                   target |-> bypassEdges[i].target,
                   relationship |-> bypassEdges[i].relationship]]
    IN  orig \o byp

\* the useMemo that yields initialNodes and initialEdges; levels is kept for
\* inspection
BuildGraph(td, hidden, positions) ==
    IF Len(td) = 0 THEN [nodes |-> <<>>, edges |-> <<>>, levels |-> InitLevelState]
    ELSE LET tm == tableMap(td)
             st == calculateLevels(tm, CallBudget(td), hidden)
         IN  [nodes |-> createNodes(tm, hidden, positions, st),
              edges |-> createEdges(td, hidden, createBypassEdges(tm, hidden)),
              levels |-> st]

----------------------------------------------------------------------------
(* Index.tsx: columns, rowObjects, filteredCsvData *)

\* the value of a missing cell (row[idx] past the end of a short row)
Undefined == "undefined"

columns(csv) == IF Len(csv) > 0 THEN csv[1] ELSE <<>>

\* Object.fromEntries(columns.map((col, idx) => [col, row[idx]])): for a
\* repeated column name the last entry wins
rowObject(cols, row) ==
    [col \in Range(cols) |->
        LET idx == CHOOSE i \in DOMAIN cols : cols[i] = col /\ \A j \in DOMAIN cols : cols[j] = col => j <= i
        IN  IF idx \in DOMAIN row THEN row[idx] ELSE Undefined] @@ <<>>

rowObjects(csv) ==
    IF Len(csv) < 2 THEN <<>>
    ELSE Map(Tail(csv), LAMBDA row : rowObject(columns(csv), row))

RECURSIVE withoutSpaces(_)
withoutSpaces(h) ==
    IF Len(h) = 0 THEN h
    ELSE (IF Head(h) \in WhiteSpace THEN "" ELSE Head(h)) \o withoutSpaces(Tail(h))

\* withoutSpaces, evaluated once for each lower-cased header cell
LowerCasedHeaderCells == {LowerCasedCells[c] : c \in HeaderCells}

StrippedCells == [h \in LowerCasedHeaderCells |-> withoutSpaces(h)]

\* replace(/\s+/g, '')
stripSpaces(h) == IF h \in LowerCasedHeaderCells THEN StrippedCells[h] ELSE withoutSpaces(h)

normalizeHeader(h) == stripSpaces(toLowerCase(h))

\* headers.findIndex(h => normalize(h) === normalize(col)), 0 for -1
findColumn(headers, col) ==
    IndexOf(Map(headers, normalizeHeader), normalizeHeader(col))

rowPassesIndex(headers, flt, row) ==
    \A col \in DOMAIN flt :
        \/ Len(flt[col]) = 0
        \/ LET colIdx == findColumn(headers, col)
           IN  \/ colIdx = 0
               \/ colIdx \in DOMAIN row /\ Includes(flt[col], row[colIdx])

filteredCsvData(csv, flt) ==
    IF Len(csv) = 0 THEN csv
    ELSE <<csv[1]>> \o SelectSeq(Tail(csv), LAMBDA row : rowPassesIndex(csv[1], flt, row))

----------------------------------------------------------------------------
(* DataLineageFilters.tsx: getFilteredData, getAvailableValues *)

\* String(row[col])
StringOf(row, col) == IF col \in DOMAIN row THEN row[col] ELSE Undefined

\* filters[columnName] || []
Selected(flt, col) == IF col \in DOMAIN flt THEN flt[col] ELSE <<>>

\* getFilteredData that applies the excluded column's filter as well
getFilteredDataNoExclusion(data, flt, excludeColumn) ==
    SelectSeq(data, LAMBDA row :
        \A col \in DOMAIN flt :
            \/ Len(flt[col]) = 0
            \/ Includes(flt[col], StringOf(row, col)))

getFilteredData(data, flt, excludeColumn) ==
    SelectSeq(data, LAMBDA row :
        \A col \in DOMAIN flt :
            \/ col = excludeColumn
            \/ Len(flt[col]) = 0
            \/ Includes(flt[col], StringOf(row, col)))

\* the cell strings of the model in UTF-16 code unit order, the order of
\* Array.prototype.sort without a comparator
CodeUnitOrder == <<"", "T1", "T2", "a", "b", "c", "reads", "undefined", "uses">>

StrLess(u, v) == IndexOf(CodeUnitOrder, u) < IndexOf(CodeUnitOrder, v)

\* [...new Set(values)]: first occurrences, in order
RECURSIVE Dedupe(_, _)
Dedupe(s, acc) ==
    IF Len(s) = 0 THEN acc
    ELSE CHOOSE r \in {Dedupe(Tail(s), next) :
                           next \in {IF Includes(acc, Head(s)) THEN acc
                                     ELSE Append(acc, Head(s))}} : TRUE

\* values.sort() on an array of distinct strings: insertion sort under StrLess
RECURSIVE InsertSorted(_, _)
InsertSorted(sorted, v) ==
    IF Len(sorted) = 0 THEN <<v>>
    ELSE IF StrLess(v, Head(sorted)) THEN <<v>> \o sorted
    ELSE <<Head(sorted)>> \o InsertSorted(Tail(sorted), v)

\* the array returned as it is, unsorted
sortSkipped(s) == s

RECURSIVE sort(_)
sort(s) == IF Len(s) = 0 THEN <<>> ELSE InsertSorted(sort(Tail(s)), Head(s))

getAvailableValues(data, flt, columnName) ==
    LET filteredData == getFilteredData(data, flt, columnName)
        values == Dedupe(Map(filteredData, LAMBDA row : StringOf(row, columnName)), <<>>)
    IN  sort(values)

----------------------------------------------------------------------------
(* useLineageState: the view state kept under the key 'lineageState'.      *)
(* The item of the store is absent or a text; a text is given by what      *)
(* JSON.parse makes of it: "empty" (the empty string), "malformed" (a text *)
(* it rejects), "null", "number" (a primitive other than null) or "object" *)
(* with its fields.                                                        *)

DefaultState == [nodePositions |-> <<>>, hiddenNodes |-> <<>>, csvHash |-> ""]

\* parsed.key || fallback
FieldOr(parsed, key, fallback) ==
    IF key \in DOMAIN parsed /\ (key = "csvHash" => parsed[key] # "")
    THEN parsed[key] ELSE fallback

\* getInitialState with its try / catch left out: the SyntaxError of
\* JSON.parse and the TypeError of reading a property of null leave the function
getInitialStateUncaught(item) ==
    CASE item.kind \in {"absent", "empty", "number"} -> [threw |-> FALSE, state |-> DefaultState]
      [] item.kind \in {"malformed", "null"} -> [threw |-> TRUE, state |-> DefaultState]
      [] item.kind = "object" ->
            [threw |-> FALSE,
             state |-> [nodePositions |-> FieldOr(item.fields, "nodePositions", <<>>),
                        hiddenNodes |-> FieldOr(item.fields, "hiddenNodes", <<>>),
                        csvHash |-> FieldOr(item.fields, "csvHash", "")]]

\* getInitialState: threw tells whether an exception leaves the function
getInitialState(item) ==
    CASE item.kind \in {"absent", "empty"} -> [threw |-> FALSE, state |-> DefaultState]
         \* JSON.parse throws a SyntaxError, caught
      [] item.kind = "malformed" -> [threw |-> FALSE, state |-> DefaultState]
         \* reading a property of null throws a TypeError, caught
      [] item.kind = "null" -> [threw |-> FALSE, state |-> DefaultState]
         \* a property of a primitive is undefined
      [] item.kind = "number" ->
            [threw |-> FALSE,
             state |-> [nodePositions |-> <<>>, hiddenNodes |-> <<>>, csvHash |-> ""]]
      [] item.kind = "object" ->
            [threw |-> FALSE,
             state |-> [nodePositions |-> FieldOr(item.fields, "nodePositions", <<>>),
                        hiddenNodes |-> FieldOr(item.fields, "hiddenNodes", <<>>),
                        csvHash |-> FieldOr(item.fields, "csvHash", "")]]

\* JSON.stringify(updated) as the item of the store
ItemOf(updated) == [kind |-> "object", fields |-> updated]

\* updateState that overwrites the record with the partial update: the fields
\* the update does not name fall back to their defaults
updateStateOverwriting(ls, newState) ==
    LET updated == newState @@ DefaultState
    IN  [state |-> updated, stored |-> ItemOf(updated)]

\* updateState: ls holds the in-memory state and the item of the store
updateState(ls, newState) ==
    LET updated == newState @@ ls.state
    IN  [state |-> updated, stored |-> ItemOf(updated)]

\* Array.prototype.join, built only as far as its first n characters need:
\* joining stops after the cell that takes the text to n characters, so the
\* result and cells.join(separator) have the same first n characters
RECURSIVE join(_, _, _)
join(cells, separator, n) ==
    IF Len(cells) = 0 THEN ""
    ELSE IF Len(cells) = 1 \/ Len(cells[1]) >= n THEN cells[1]
    ELSE cells[1] \o separator
             \o join(Tail(cells), separator, n - Len(cells[1]) - Len(separator))

\* data.map(row => row.join(',')).join('|'), as far as its first n characters
RECURSIVE joinRows(_, _)
joinRows(data, n) ==
    IF Len(data) = 0 THEN ""
    ELSE LET first == join(data[1], ",", n)
         IN  IF Len(data) = 1 \/ Len(first) >= n THEN first
             ELSE first \o "|" \o joinRows(Tail(data), n - Len(first) - 1)

\* the length the hash is cut to
HashLength == 32

\* the number of bytes that n characters of base64 encode (n a multiple of 4)
BytesOf(n) == (n \div 4) * 3

\* btoa(text).slice(0, n), written as the bytes these characters encode:
\* base64 writes each 3 bytes as 4 characters and is one-to-one, so the first
\* n characters are determined by, and determine, the first BytesOf(n) bytes
btoaSlice(text, n) ==
    IF Len(text) <= BytesOf(n) THEN text ELSE SubSeq(text, 1, BytesOf(n))

generateCsvHash(data) ==
    btoaSlice(joinRows(data, BytesOf(HashLength)), HashLength)

----------------------------------------------------------------------------
(* DataLineageGraph.tsx: the two effects *)

\* the effect on [currentCsvHash]; rendered is the state of the render that
\* scheduled it; restored tells whether onHiddenNodesChange was called
HashEffect(ls, rendered, hidden, currentCsvHash) ==
    IF rendered.csvHash = currentCsvHash
    THEN [ls |-> ls, hiddenNodes |-> Dedupe(rendered.hiddenNodes, <<>>), restored |-> TRUE]
    ELSE [ls |-> updateState(ls, [csvHash |-> currentCsvHash, hiddenNodes |-> <<>>,
                                  nodePositions |-> <<>>]),
          hiddenNodes |-> hidden, restored |-> FALSE]

\* a save effect that writes the hidden nodes into a fresh record
SaveEffectResettingPositions(ls, hidden) ==
    updateState(ls, [hiddenNodes |-> hidden, nodePositions |-> <<>>])

\* the effect on [hiddenNodes]
SaveEffect(ls, hidden) == updateState(ls, [hiddenNodes |-> hidden])

\* the save effect left out of the re-render that follows a restore
CommitWithoutSecondSave(ls, hidden, hashChanged, hiddenChanged, currentCsvHash) ==
    LET afterHash == IF hashChanged THEN HashEffect(ls, ls.state, hidden, currentCsvHash)
                     ELSE [ls |-> ls, hiddenNodes |-> hidden, restored |-> FALSE]
        afterSave == IF hiddenChanged THEN SaveEffect(afterHash.ls, hidden) ELSE afterHash.ls
    IN  [ls |-> afterSave, hiddenNodes |-> afterHash.hiddenNodes]

\* the effects of one commit with the save effect run before the hash effect
CommitSavingFirst(ls, hidden, hashChanged, hiddenChanged, currentCsvHash) ==
    LET afterSave == IF hiddenChanged THEN SaveEffect(ls, hidden) ELSE ls
        afterHash == IF hashChanged
                     THEN HashEffect(afterSave, ls.state, hidden, currentCsvHash)
                     ELSE [ls |-> afterSave, hiddenNodes |-> hidden, restored |-> FALSE]
        final == IF afterHash.restored THEN SaveEffect(afterHash.ls, afterHash.hiddenNodes)
                 ELSE afterHash.ls
    IN  [ls |-> final, hiddenNodes |-> afterHash.hiddenNodes]

\* the effects of one commit, in their order in the component, and of the
\* re-render they cause: the hash effect runs when currentCsvHash changed, the
\* save effect when the hiddenNodes prop changed, with the prop of that
\* commit; a restore hands the parent a new Set, so the save effect runs
\* again with it
Commit(ls, hidden, hashChanged, hiddenChanged, currentCsvHash) ==
    LET afterHash == IF hashChanged THEN HashEffect(ls, ls.state, hidden, currentCsvHash)
                     ELSE [ls |-> ls, hiddenNodes |-> hidden, restored |-> FALSE]
        afterSave == IF hiddenChanged THEN SaveEffect(afterHash.ls, hidden) ELSE afterHash.ls
        final == IF afterHash.restored THEN SaveEffect(afterSave, afterHash.hiddenNodes)
                 ELSE afterSave
    IN  [ls |-> final, hiddenNodes |-> afterHash.hiddenNodes]

----------------------------------------------------------------------------
(* Input universes of the two specifications *)

\* the type each table name carries in the generated rows
TypeOf(name) == IF name = "b" THEN "T2" ELSE "T1"

\* a data row of the grid: child, child type, relationship, parent, parent type
GridRow(child, rel, parent) == <<child, TypeOf(child), rel, parent, TypeOf(parent)>>

\* the rows a lineage dataset is drawn from: a chain a <- b <- c, a second
\* relationship on the same pair, a shortcut a <- c, a row c <- a that closes
\* a 2-cycle with the shortcut and a 3-cycle with the chain, a self-reference
GraphRows ==
    {GridRow("a", "uses", "b"), GridRow("b", "reads", "c"), GridRow("b", "uses", "c"),
     GridRow("a", "uses", "c"), GridRow("c", "reads", "a"), GridRow("c", "uses", "c")}

\* the rows a dataset of the filter specification is drawn from
FilterRows ==
    {GridRow(p[1], r, p[2]) : p \in {<<"a", "b">>, <<"a", "c">>, <<"b", "c">>}, r \in Rels}

\* the columns whose filter popovers are operated
FilterColumns == {"childTableName", "relationship", "parentTableName"}

SeqsUpTo(S, n) == UNION {[1..k -> S] : k \in 0..n}

GraphDatasets == {<<Header>> \o rows : rows \in SeqsUpTo(GraphRows, MaxRows)}

FilterDatasets == {<<Header>> \o rows : rows \in SeqsUpTo(FilterRows, MaxFilterRows)}

\* a header that repeats the relationship column
DupHeader == Header \o <<"relationship">>

\* rows of uneven length (the parser keeps a line's cells as they are) and
\* rows under the header with the repeated column
RaggedRows == {<<"a", "T1", "uses">>, GridRow("a", "uses", "b"), GridRow("b", "reads", "c")}

DupRows == {GridRow("a", "uses", "b") \o <<"reads">>, GridRow("b", "reads", "c") \o <<"uses">>}

RaggedDatasets ==
    {<<Header>> \o rows : rows \in SeqsUpTo(RaggedRows, MaxFilterRows)}
        \cup {<<DupHeader>> \o rows : rows \in SeqsUpTo(DupRows, MaxFilterRows)}

NoPositions == <<>>

\* headers of the files of the load specification: the columns in another
\* order, cells in another case or with spaces (a quoted cell keeps its
\* outer spaces), and a header without the relationship column
PermutedHeader ==
    <<"parentTableName", "parentTableType", "relationship", "childTableName", "childTableType">>

SpacedHeader ==
    <<"Child Table Name", "childTableType", " Relationship ", "PARENTTABLENAME", "parentTableType">>

ShortHeader == <<"childTableName", "childTableType", "parentTableName", "parentTableType">>

\* a file is given by its name and by the grid parseCSV returns for its text
Files ==
    {[name |-> "chain.csv",
      grid |-> <<Header, GridRow("a", "uses", "b"), GridRow("b", "reads", "c")>>],
     [name |-> "other.csv", grid |-> <<Header, GridRow("a", "uses", "c")>>],
     [name |-> "permuted.csv", grid |-> <<PermutedHeader, <<"b", "T2", "uses", "a", "T1">> >>],
     [name |-> "spaced.csv", grid |-> <<SpacedHeader, GridRow("a", "uses", "b")>>],
     [name |-> "short.csv", grid |-> <<ShortHeader, <<"a", "T1", "b", "T2">> >>],
     [name |-> "empty.csv", grid |-> <<>>]}

----------------------------------------------------------------------------
(* State machine *)

\* what the graph component renders for the current grid, filters and hidden set
RenderGrid(shown, hidden, positions) == BuildGraph(tableData(shown), hidden, positions)

Render(csv, flt, hidden, positions) ==
    RenderGrid(filteredCsvData(csv, flt), hidden, positions)

\* an edge without its id
Strip(e) == [source |-> e.source, target |-> e.target, relationship |-> e.relationship,
             bypass |-> e.id[1] = "e-bypass-"]

\* the displayed edges as a multiset: stripped edge -> number of occurrences
EdgeBag(es) ==
    [t \in {Strip(es[i]) : i \in DOMAIN es} |->
        Cardinality({i \in DOMAIN es : Strip(es[i]) = t})]

NoUndo == [phase |-> "none"]

NoFile == [name |-> "", grid |-> <<>>]

NoToast == [title |-> ""]

NoItem == [kind |-> "absent"]

\* the owner of the hiddenNodes prop, the parent of the graph and of the
\* filters, is a state of the page: it starts empty and holds the Set that
\* onHiddenNodesChange was last called with
InitialHiddenNodes == <<>>

\* Index.tsx validateCSVStructure
validateCSVStructure(headers) ==
    LET normalizedHeaders == Map(headers, normalizeHeader)
    IN  \A i \in DOMAIN Header : Includes(normalizedHeaders, toLowerCase(Header[i]))

\* the first render of the graph component (the state is read from the
\* store), its effects and the re-render they cause; hidden is the
\* hiddenNodes prop at the mount
MountGraph(csv, flt, hidden, item) ==
    LET loaded == getInitialState(item)
        shown == filteredCsvData(csv, flt)
        hash == generateCsvHash(shown)
        c == Commit([state |-> loaded.state, stored |-> item], hidden, TRUE, TRUE, hash)
        g == RenderGrid(shown, c.hiddenNodes, c.ls.state.nodePositions)
    IN  [loaded |-> loaded, hiddenNodes |-> c.hiddenNodes, state |-> c.ls.state,
         stored |-> c.ls.stored, currentCsvHash |-> hash,
         nodes |-> g.nodes, edges |-> g.edges, levels |-> g.levels]

\* a page that shows the results of a loaded grid, its graph mounted on an
\* empty store
InitCommon ==
    /\ filters = <<>>
    /\ LET m == MountGraph(csvData, <<>>, InitialHiddenNodes, NoItem)
       IN  /\ hiddenNodes = m.hiddenNodes
           /\ state = m.state /\ stored = m.stored
           /\ committedCsvHash = m.currentCsvHash
           /\ nodes = m.nodes /\ edges = m.edges /\ levels = m.levels
    /\ undo = NoUndo
    /\ intended = {}
    /\ selectedFile = [name |-> "lineage.csv", grid |-> csvData]
    /\ reading = NoFile
    /\ showResults = TRUE
    /\ showLineageGraph = TRUE
    /\ toast = [title |-> "File processed successfully", rows |-> Len(csvData) - 1]
    /\ currentPage = 1

InitGraph == csvData \in GraphDatasets /\ InitCommon

InitFilter == csvData \in FilterDatasets /\ InitCommon

InitRagged == csvData \in RaggedDatasets /\ InitCommon

\* the graph component rendered again with new props (the hidden set handed
\* to onHiddenNodesChange when hiddenChanged, the grid under newFilters), its
\* effects, and what it displays then; ls holds the state and the store the
\* queued updates of the event handler have left
RerenderFrom(ls, newFilters, newHiddenNodes, hiddenChanged) ==
    LET shown == filteredCsvData(csvData, newFilters)
        newHash == generateCsvHash(shown)
        c == Commit(ls, newHiddenNodes,
                    newHash # committedCsvHash, hiddenChanged, newHash)
        g == RenderGrid(shown, c.hiddenNodes, c.ls.state.nodePositions)
    IN  /\ hiddenNodes' = c.hiddenNodes
        /\ committedCsvHash' = newHash
        /\ state' = c.ls.state
        /\ stored' = c.ls.stored
        /\ nodes' = g.nodes
        /\ edges' = g.edges
        /\ levels' = g.levels

Rerender(newFilters, newHiddenNodes, hiddenChanged) ==
    RerenderFrom([state |-> state, stored |-> stored], newFilters, newHiddenNodes,
                 hiddenChanged)

\* an array push in place of Set.prototype.add
SetAddAsPush(hidden, id) == Append(hidden, id)

\* new Set(hiddenNodes).add(id)
SetAdd(hidden, id) == IF Includes(hidden, id) THEN hidden ELSE Append(hidden, id)

\* Set.prototype.clear in place of delete
SetDeleteAsClear(hidden, id) == <<>>

\* new Set(hiddenNodes).delete(id)
SetDelete(hidden, id) == SelectSeq(hidden, LAMBDA h : h # id)

\* handleNodeContextMenu, followed by the re-render it causes
HideNode(id) ==
    /\ showResults /\ showLineageGraph
    /\ Rerender(filters, SetAdd(hiddenNodes, id), TRUE)
    /\ undo' = IF Includes(hiddenNodes, id) THEN NoUndo
               ELSE [phase |-> "hid", id |-> id, before |-> EdgeBag(edges)]
    /\ intended' = intended \cup {id}
    /\ UNCHANGED <<csvData, filters, currentPage>>
    /\ UNCHANGED pageVars

\* handleShowHiddenNode with selectedHiddenNode = id, followed by the re-render
ShowHiddenNode(id) ==
    /\ showResults /\ showLineageGraph
    /\ id # ""
    /\ Rerender(filters, SetDelete(hiddenNodes, id), TRUE)
    /\ undo' = IF undo.phase = "hid" /\ undo.id = id
               THEN [undo EXCEPT !.phase = "restored"] ELSE NoUndo
    /\ intended' = intended \ {id}
    /\ UNCHANGED <<csvData, filters, currentPage>>
    /\ UNCHANGED pageVars

\* the changes.forEach of handleNodesChange: each position change queues an
\* updateState whose nodePositions spreads rendered.nodePositions, the value
\* of the render the handler was created in, and adds the one changed node
RECURSIVE SavePositions(_, _, _)
SavePositions(ls, rendered, changes) ==
    IF Len(changes) = 0 THEN ls
    ELSE SavePositions(
             updateState(ls, [nodePositions |->
                                 (changes[1].id :> changes[1].position)
                                     @@ rendered.nodePositions]),
             rendered, Tail(changes))

\* handleNodesChange for a batch of position changes, and the re-render: the
\* new nodePositions recompute initialNodes, which replace the nodes state
handleNodesChange(changes) ==
    /\ showResults /\ showLineageGraph
    /\ RerenderFrom(SavePositions([state |-> state, stored |-> stored], state, changes),
                    filters, hiddenNodes, FALSE)
    /\ undo' = [phase |-> "dragged", changes |-> changes]
    /\ UNCHANGED <<csvData, filters, intended, currentPage>>
    /\ UNCHANGED pageVars

\* onFiltersChange({...filters, [columnName]: selection}), and the re-render;
\* history is what the operation leaves in undo
SetFilter(columnName, selection, history) ==
    /\ showResults /\ showLineageGraph
    /\ filters' = (columnName :> selection) @@ filters
    /\ Rerender((columnName :> selection) @@ filters, hiddenNodes, FALSE)
    /\ undo' = history
    /\ UNCHANGED <<csvData, intended, currentPage>>
    /\ UNCHANGED pageVars

\* handleValueToggle
ValueToggle(columnName, value) ==
    LET currentSelected == Selected(filters, columnName)
        newSelected == IF Includes(currentSelected, value)
                       THEN SelectSeq(currentSelected, LAMBDA v : v # value)
                       ELSE Append(currentSelected, value)
    IN  SetFilter(columnName, newSelected, NoUndo)

\* handleSelectAll that never takes the clear branch
handleSelectAllNeverClears(data, flt, columnName) ==
    getAvailableValues(data, flt, columnName)

\* handleSelectAll: the selection it hands to onFiltersChange
handleSelectAll(data, flt, columnName) ==
    LET availableValues == getAvailableValues(data, flt, columnName)
        currentSelected == Selected(flt, columnName)
        isAllSelected == Len(currentSelected) = Len(availableValues)
    IN  IF isAllSelected THEN <<>> ELSE availableValues

\* handleSelectAll and the re-render; the history keeps the column, the
\* selection the call found, and whether the previous operation was a select
\* all of the same column
SelectAll(columnName) ==
    SetFilter(columnName, handleSelectAll(rowObjects(csvData), filters, columnName),
              [phase |-> "selectAll", id |-> columnName,
               found |-> Selected(filters, columnName),
               twice |-> undo.phase = "selectAll" /\ undo.id = columnName])

----------------------------------------------------------------------------
(* CsvTable.tsx: pagination of the filtered grid *)

rowsPerPage == 10

\* Math.ceil(dataRows.length / rowsPerPage); 0 for an empty grid
totalPages(csv) ==
    IF Len(csv) = 0 THEN 0 ELSE (Len(csv) - 1 + rowsPerPage - 1) \div rowsPerPage

\* dataRows.slice(startIndex, endIndex) for a page number of at least 1
paginatedRows(csv, page) ==
    IF Len(csv) = 0 THEN <<>>
    ELSE LET dataRows == Tail(csv)
             startIndex == (page - 1) * rowsPerPage
             endIndex == startIndex + rowsPerPage
         IN  SubSeq(dataRows, startIndex + 1,
                    IF endIndex < Len(dataRows) THEN endIndex ELSE Len(dataRows))

\* the pagination bar is rendered when there are several pages
PaginationShown == showResults /\ totalPages(filteredCsvData(csvData, filters)) > 1

\* handlePrevPage; the button is disabled on page 1
handlePrevPage ==
    /\ PaginationShown
    /\ currentPage # 1
    /\ currentPage' = (IF currentPage - 1 > 1 THEN currentPage - 1 ELSE 1)
    /\ UNCHANGED <<csvData, filters, hiddenNodes, nodes, edges, levels, undo, intended,
                   state, committedCsvHash, stored>>
    /\ UNCHANGED pageVars

\* handleNextPage; the button is disabled on the last page
handleNextPage ==
    LET pages == totalPages(filteredCsvData(csvData, filters))
    IN  /\ PaginationShown
        /\ currentPage # pages
        /\ currentPage' = (IF currentPage + 1 < pages THEN currentPage + 1 ELSE pages)
        /\ UNCHANGED <<csvData, filters, hiddenNodes, nodes, edges, levels, undo, intended,
                       state, committedCsvHash, stored>>
        /\ UNCHANGED pageVars

----------------------------------------------------------------------------
(* Index.tsx: file selection and Generate Lineage *)

EmptyFileToast == [title |-> "Empty file"]

\* the description names the five canonical columns
FormatToast == [title |-> "CSV File not in proper format", columns |-> Header]

SuccessToast(parsed) == [title |-> "File processed successfully", rows |-> Len(parsed) - 1]

\* the graph component is not mounted: it has no state and displays nothing
GraphUnmounted ==
    /\ nodes' = <<>>
    /\ edges' = <<>>
    /\ levels' = InitLevelState
    /\ state' = DefaultState
    /\ committedCsvHash' = ""

\* handleFileSelect; the upload section is rendered while results are not shown
FileSelect(file) ==
    /\ ~showResults
    /\ selectedFile' = file
    /\ showResults' = FALSE
    /\ csvData' = <<>>
    /\ filters' = <<>>
    /\ undo' = NoUndo
    /\ UNCHANGED <<hiddenNodes, nodes, edges, levels, intended, reading, showLineageGraph,
                   toast, state, committedCsvHash, stored, currentPage>>

\* handleClearFile
ClearFile ==
    /\ ~showResults
    /\ selectedFile # NoFile
    /\ selectedFile' = NoFile
    /\ showResults' = FALSE
    /\ showLineageGraph' = FALSE
    /\ csvData' = <<>>
    /\ filters' = <<>>
    /\ undo' = NoUndo
    /\ UNCHANGED <<hiddenNodes, nodes, edges, levels, intended, reading, toast, state,
                   committedCsvHash, stored, currentPage>>

\* handleGenerateLineage up to its await: the button is rendered for a
\* selected file and disabled while a read is in progress
StartGenerate ==
    /\ ~showResults
    /\ selectedFile # NoFile
    /\ reading = NoFile
    /\ reading' = selectedFile
    /\ undo' = NoUndo
    /\ UNCHANGED <<csvData, filters, hiddenNodes, nodes, edges, levels, intended,
                   selectedFile, showResults, showLineageGraph, toast, state,
                   committedCsvHash, stored, currentPage>>

\* Generate Lineage storing the grid before it validates the header
CompleteGenerateStoringFirst ==
    LET parsed == reading.grid
    IN  /\ reading # NoFile
        /\ Len(parsed) > 0 /\ ~validateCSVStructure(parsed[1])
        /\ reading' = NoFile
        /\ csvData' = parsed
        /\ toast' = FormatToast
        /\ undo' = [phase |-> "rejected", headers |-> parsed[1]]
        /\ UNCHANGED <<filters, hiddenNodes, nodes, edges, levels, intended, selectedFile,
                       showResults, showLineageGraph, state, committedCsvHash, stored, currentPage>>

\* handleGenerateLineage from its await on: the file read is the one selected
\* when the button was pressed; on success the results are shown and the
\* graph component is mounted
CompleteGenerate ==
    LET parsed == reading.grid
    IN  /\ reading # NoFile
        /\ reading' = NoFile
        /\ IF Len(parsed) = 0
           THEN /\ toast' = EmptyFileToast
                /\ undo' = NoUndo
                /\ UNCHANGED <<csvData, filters, hiddenNodes, nodes, edges, levels, intended,
                               selectedFile, showResults, showLineageGraph, state,
                               committedCsvHash, stored, currentPage>>
           ELSE IF ~validateCSVStructure(parsed[1])
           THEN /\ toast' = FormatToast
                /\ undo' = [phase |-> "rejected", headers |-> parsed[1]]
                /\ UNCHANGED <<csvData, filters, hiddenNodes, nodes, edges, levels, intended,
                               selectedFile, showResults, showLineageGraph, state,
                               committedCsvHash, stored, currentPage>>
           ELSE LET m == MountGraph(parsed, filters, hiddenNodes, stored)
                IN  /\ csvData' = parsed
                    /\ showResults' = TRUE
                    /\ showLineageGraph' = TRUE
                    /\ toast' = SuccessToast(parsed)
                    /\ hiddenNodes' = m.hiddenNodes
                    /\ state' = m.state
                    /\ stored' = m.stored
                    /\ committedCsvHash' = m.currentCsvHash
                    /\ nodes' = m.nodes
                    /\ edges' = m.edges
                    /\ levels' = m.levels
                    /\ undo' = [phase |-> "mounted", item |-> stored, loaded |-> m.loaded,
                                hidden |-> hiddenNodes]
                    /\ intended' = Range(m.hiddenNodes)
                    /\ currentPage' = 1
                    /\ UNCHANGED <<filters, selectedFile>>

\* the Upload New File button of the results section
UploadNewFile ==
    /\ showResults
    /\ showResults' = FALSE
    /\ showLineageGraph' = FALSE
    /\ filters' = <<>>
    /\ GraphUnmounted
    /\ undo' = NoUndo
    /\ currentPage' = 1
    /\ UNCHANGED <<csvData, hiddenNodes, intended, selectedFile, reading, toast, stored>>

\* the page loaded again: every state of the page starts over, the store stays
ReloadPage ==
    /\ csvData' = <<>>
    /\ filters' = <<>>
    /\ hiddenNodes' = InitialHiddenNodes
    /\ GraphUnmounted
    /\ undo' = NoUndo
    /\ intended' = {}
    /\ selectedFile' = NoFile
    /\ reading' = NoFile
    /\ showResults' = FALSE
    /\ showLineageGraph' = FALSE
    /\ toast' = NoToast
    /\ currentPage' = 1
    /\ UNCHANGED stored

NextGraph ==
    \/ \E id \in Names : HideNode(id)
    \/ \E id \in Names : ShowHiddenNode(id)

\* the checkboxes offered for a column are its available values
NextFilter ==
    \/ \E col \in Range(columns(csvData)) \cap FilterColumns :
         \E v \in Range(getAvailableValues(rowObjects(csvData), filters, col)) :
            ValueToggle(col, v)
    \/ \E col \in Range(columns(csvData)) \cap FilterColumns : SelectAll(col)

SpecGraph == InitGraph /\ [][NextGraph]_vars

SpecFilter == InitFilter /\ [][NextFilter]_vars

\* the filters operated on grids with short rows or a repeated column
SpecRagged == InitRagged /\ [][NextFilter]_vars

\* the nodes that are dragged and the positions a drag leaves them at (none
\* of them a position the layout computes)
DragNames == {"a", "b"}

DragPositions == {[x |-> 10, y |-> 20], [x |-> 40, y |-> 50]}

DragDatasets ==
    {<<Header, GridRow("a", "uses", "b"), GridRow("b", "reads", "c")>>,
     <<Header, GridRow("a", "uses", "c"), GridRow("b", "reads", "c")>>,
     <<Header, GridRow("a", "uses", "b")>>}

InitDrag == csvData \in DragDatasets /\ InitCommon

\* the orders in which the names of S can follow one another
Orders(S) ==
    {o \in [1..Cardinality(S) -> S] : \A i, j \in DOMAIN o : i # j => o[i] # o[j]}

\* a change batch moves one or several displayed nodes, each once
ChangeBatches ==
    LET dragged == {id \in DragNames : \E i \in DOMAIN nodes : nodes[i].id = id}
    IN  UNION {UNION {{[i \in DOMAIN o |-> [id |-> o[i], position |-> pos[o[i]]]] :
                          pos \in [S -> DragPositions]} : o \in Orders(S)} :
                  S \in (SUBSET dragged) \ {{}}}

NextDrag ==
    \/ \E changes \in ChangeBatches : handleNodesChange(changes)
    \/ \E id \in DragNames : HideNode(id)
    \/ \E id \in DragNames : ShowHiddenNode(id)
    \/ \E v \in Range(getAvailableValues(rowObjects(csvData), filters, "relationship")) :
          ValueToggle("relationship", v)

\* drags, hides, reveals and filter changes on one dataset
SpecDrag == InitDrag /\ [][NextDrag]_vars

\* grids over four tables: the chain p -> a -> b -> c; a grid in which c,
\* first met in the third row, is reached as a parent of a before b is; a
\* grid whose rows give a and p two types; a diamond; a single row
ChainNames == {"p", "a", "b", "c"}

ChainGrid ==
    <<Header, GridRow("a", "uses", "p"), GridRow("b", "reads", "a"), GridRow("c", "uses", "b")>>

OrderGrid ==
    <<Header, GridRow("a", "uses", "p"), GridRow("b", "uses", "p"),
      GridRow("a", "reads", "c"), GridRow("c", "reads", "p")>>

TypesGrid ==
    <<Header, <<"a", "T1", "uses", "p", "T1">>, <<"b", "T2", "reads", "a", "T2">>,
      <<"c", "T1", "uses", "p", "T2">> >>

DiamondGrid ==
    <<Header, GridRow("a", "uses", "p"), GridRow("b", "uses", "p"),
      GridRow("c", "reads", "a"), GridRow("c", "reads", "b")>>

ChainDatasets ==
    {ChainGrid, OrderGrid, TypesGrid, DiamondGrid, <<Header, GridRow("a", "uses", "p")>>}

InitChain == csvData \in ChainDatasets /\ InitCommon

NextChain ==
    \/ \E id \in ChainNames : HideNode(id)
    \/ \E id \in ChainNames : ShowHiddenNode(id)

\* hides and reveals on the grids over four tables
SpecChain == InitChain /\ [][NextChain]_vars

\* grids long enough for several pages: rows with the relationship uses
\* followed by at most two rows with the relationship reads
Repeat(row, k) == [i \in 1..k |-> row]

TableDatasets ==
    {<<Header>> \o Repeat(GridRow("a", "uses", "b"), k) \o Repeat(GridRow("b", "reads", "c"), m) :
        k \in 0..MaxTableRows, m \in 0..2}

InitTable == csvData \in TableDatasets /\ InitCommon

NextTable ==
    \/ handlePrevPage
    \/ handleNextPage
    \/ \E v \in Range(getAvailableValues(rowObjects(csvData), filters, "relationship")) :
          ValueToggle("relationship", v)

\* paging and filter changes of the table
SpecTable == InitTable /\ [][NextTable]_vars

\* what the store may hold when the page is opened
StoredItems ==
    {NoItem, [kind |-> "empty"], [kind |-> "malformed"], [kind |-> "null"], [kind |-> "number"],
     [kind |-> "object", fields |-> <<>>],
     [kind |-> "object", fields |-> [hiddenNodes |-> <<"b">>]],
     [kind |-> "object", fields |-> [csvHash |-> generateCsvHash(<<Header>>),
                                     nodePositions |-> ("a" :> [x |-> 10, y |-> 20])]],
     [kind |-> "object", fields |-> [csvHash |-> generateCsvHash(<<Header>>),
                                     hiddenNodes |-> <<"b">>,
                                     nodePositions |-> ("a" :> [x |-> 10, y |-> 20])]]}

\* the page as it opens, over any content of the store
InitLoad ==
    /\ csvData = <<>>
    /\ filters = <<>>
    /\ hiddenNodes = InitialHiddenNodes
    /\ nodes = <<>> /\ edges = <<>> /\ levels = InitLevelState
    /\ undo = NoUndo
    /\ intended = {}
    /\ selectedFile = NoFile
    /\ reading = NoFile
    /\ showResults = FALSE
    /\ showLineageGraph = FALSE
    /\ toast = NoToast
    /\ state = DefaultState
    /\ committedCsvHash = ""
    /\ stored \in StoredItems
    /\ currentPage = 1

NextLoad ==
    \/ \E file \in Files : FileSelect(file)
    \/ ClearFile
    \/ StartGenerate
    \/ CompleteGenerate
    \/ UploadNewFile
    \/ ReloadPage
    \/ \E id \in Names : HideNode(id)
    \/ \E id \in Names : ShowHiddenNode(id)
    \/ \E v \in Range(getAvailableValues(rowObjects(csvData), filters, "relationship")) :
          ValueToggle("relationship", v)

SpecLoad == InitLoad /\ [][NextLoad]_vars

----------------------------------------------------------------------------
(* Vocabulary of the properties, stated on the rows themselves *)

\* the lineage rows the graph is built from
Rows == tableData(filteredCsvData(csvData, filters))

RowSet == Range(Rows)

Tables == {r.parentTableName : r \in RowSet} \cup {r.childTableName : r \in RowSet}

ParentsOf(t) == {r.parentTableName : r \in {q \in RowSet : q.childTableName = t}}

ChildrenOf(t) == {r.childTableName : r \in {q \in RowSet : q.parentTableName = t}}

Hidden == Range(hiddenNodes)

Visible == Tables \ Hidden

\* x is an ancestor of y along at most n parent links
RECURSIVE Reaches(_, _, _)
Reaches(x, y, n) ==
    /\ n > 0
    /\ \/ x \in ParentsOf(y)
       \/ \E z \in ParentsOf(y) : Reaches(x, z, n - 1)

Acyclic == \A t \in Tables : ~Reaches(t, t, Cardinality(Tables))

LevelOf(t) == levels.val[t]

Displayed == {nodes[i].id : i \in DOMAIN nodes}

NodeOf(t) == CHOOSE n \in Range(nodes) : n.id = t

BypassEdges == SelectSeq(edges, LAMBDA e : e.id[1] = "e-bypass-")

DirectEdges == SelectSeq(edges, LAMBDA e : e.id[1] = "e-")

----------------------------------------------------------------------------
(* C1: with no node hidden and acyclic rows, every table without parents    *)
(* has level 0 and every other table has level exactly 1 + the maximum of  *)
(* its parents' levels, so a child lies at least one level after each of   *)
(* its parents whatever the row order; the rows a <- b, b <- c give        *)
(* c: 0, b: 1, a: 2.                                                       *)

ScenarioRows == <<GridRow("a", "uses", "b"), GridRow("b", "reads", "c")>>

C1_AcyclicLevels ==
    (hiddenNodes = <<>> /\ Acyclic) =>
        /\ \A t \in Tables :
              /\ t \in DOMAIN levels.val
              /\ ParentsOf(t) = {} => LevelOf(t) = 0
              /\ ParentsOf(t) # {} =>
                    /\ \A p \in ParentsOf(t) : LevelOf(t) >= 1 + LevelOf(p)
                    /\ \E p \in ParentsOf(t) : LevelOf(t) = 1 + LevelOf(p)
        /\ Tail(csvData) = ScenarioRows =>
              LevelOf("c") = 0 /\ LevelOf("b") = 1 /\ LevelOf("a") = 2

\* a table with two parents on different levels has been levelled
C1_Witness ==
    /\ hiddenNodes = <<>>
    /\ Acyclic
    /\ ParentsOf("a") = {"b", "c"}
    /\ ParentsOf("b") = {"c"}
    /\ LevelOf("a") = 2

----------------------------------------------------------------------------
(* C2: for every row set, self-references and cycles included, the level   *)
(* computation ends within its call budget (one call per visible table     *)
(* and one per parent entry) and leaves every visible table with an        *)
(* integer level >= 0.                                                     *)

C2_LevelsTerminate ==
    /\ ~levels.overflow
    /\ levels.calls <= Cardinality(Visible) + Len(Rows)
    /\ \A t \in Visible : t \in DOMAIN levels.val /\ LevelOf(t) \in Nat

\* the rows hold a self-reference and a longer cycle, and all are levelled
C2_Witness ==
    /\ "c" \in ParentsOf("c")
    /\ Reaches("a", "a", Cardinality(Tables))
    /\ "a" \notin ParentsOf("a")
    /\ Visible = Tables
    /\ \A t \in Visible : t \in DOMAIN levels.val /\ LevelOf(t) > 0

----------------------------------------------------------------------------
(* C3: for every hidden table h the displayed graph holds exactly one      *)
(* bypass edge p -> c labelled "via h" for each pair of a visible parent p *)
(* and a visible child c of h, parents and children taken as sets, and no  *)
(* other bypass edge; hiding b in c -> b -> a leaves no direct edge and    *)
(* the single bypass edge c -> a labelled "via b".                         *)

ExpectedBypass ==
    {[source |-> p, target |-> c, relationship |-> "via " \o h, bypass |-> TRUE] :
        <<h, p, c>> \in {t \in (Hidden \cap Tables) \X Visible \X Visible :
                            t[2] \in ParentsOf(t[1]) /\ t[3] \in ChildrenOf(t[1])}}

C3_OneBypassPerPair ==
    /\ EdgeBag(BypassEdges) = [t \in ExpectedBypass |-> 1]
    /\ (Tail(csvData) = ScenarioRows /\ hiddenNodes = <<"b">>) =>
          /\ DirectEdges = <<>>
          /\ Len(BypassEdges) = 1
          /\ Strip(BypassEdges[1]) =
                [source |-> "c", target |-> "a", relationship |-> "via b", bypass |-> TRUE]

----------------------------------------------------------------------------
(* C4: hiding a visible node and revealing it in the next step displays    *)
(* the same edges (source, target, label, without ids) as before the hide. *)

C4_HideRevealRestores ==
    undo.phase = "restored" => EdgeBag(edges) = undo.before

\* the node hidden and revealed carried edges, and another node stays hidden
C4_Witness ==
    /\ undo.phase = "restored"
    /\ hiddenNodes # <<>>
    /\ \E i \in DOMAIN edges : undo.id \in {edges[i].source, edges[i].target}
    /\ BypassEdges # <<>>

----------------------------------------------------------------------------
(* C5: the displayed nodes and edges depend only on the hidden set that a  *)
(* sequence of hide and reveal operations asks for: the hidden set in use  *)
(* is that set, hiding a hidden node or revealing a visible one changes    *)
(* nothing, and the nodes and the multiset of edges are those of a build   *)
(* that hides the set's members in a fixed order.                          *)

\* the members of a set of names in one fixed order
InFixedOrder(S) == SelectSeq(CodeUnitOrder, LAMBDA n : n \in S)

C5_DependsOnHiddenSetOnly ==
    LET g == Render(csvData, filters, InFixedOrder(intended), state.nodePositions)
    IN  /\ Hidden = intended
        /\ Len(hiddenNodes) = Cardinality(intended)
        /\ nodes = g.nodes
        /\ EdgeBag(edges) = EdgeBag(g.edges)

\* two nodes were hidden in the opposite of the fixed order, one is bypassed
C5_Witness ==
    /\ hiddenNodes = <<"b", "a">>
    /\ BypassEdges # <<>>
    /\ nodes # <<>>

----------------------------------------------------------------------------
(* C6: the non-bypass edges are, in row order, one edge per row whose      *)
(* parent and child are both visible, from the parent to the child with    *)
(* the row's relationship; rows that repeat a pair each give an edge, and  *)
(* a row with a hidden endpoint gives none.                                *)

VisibleRowIndexes ==
    {i \in DOMAIN Rows : Rows[i].childTableName \notin Hidden
                         /\ Rows[i].parentTableName \notin Hidden}

\* the index of the k-th row with two visible endpoints
NthVisibleRow(k) ==
    CHOOSE i \in VisibleRowIndexes : Cardinality({j \in VisibleRowIndexes : j <= i}) = k

C6_OneEdgePerVisibleRow ==
    /\ Len(DirectEdges) = Cardinality(VisibleRowIndexes)
    /\ \A k \in DOMAIN DirectEdges :
          LET e == DirectEdges[k]
              r == Rows[NthVisibleRow(k)]
          IN  /\ e.source = r.parentTableName
              /\ e.target = r.childTableName
              /\ e.relationship = r.relationship

\* two rows on the same pair both give an edge while another row is dropped
C6_Witness ==
    /\ Len(DirectEdges) = 2
    /\ DirectEdges[1].source = DirectEdges[2].source
    /\ DirectEdges[1].target = DirectEdges[2].target
    /\ DirectEdges[1].relationship # DirectEdges[2].relationship
    /\ Len(Rows) = 3
    /\ hiddenNodes # <<>>

----------------------------------------------------------------------------
(* C7: levels and positions of the displayed nodes are those of the        *)
(* visible tables alone: a displayed node whose parents are all hidden     *)
(* lies on level 0, on acyclic rows a displayed node lies one level after  *)
(* the deepest of its visible parents, and the displayed nodes of a level  *)
(* take the indexes 0, 1, 2, ... with no index left to a hidden node.      *)

NodeLevel(n) == n.position.x \div 300

\* the number of displayed nodes of n's level that precede nodes[i]
IndexAmongDisplayed(i) ==
    Cardinality({j \in 1..(i - 1) : nodes[j].position.x = nodes[i].position.x})

C7_VisibleOnlyLayout ==
    \A i \in DOMAIN nodes :
        LET n == nodes[i]
            visibleParents == ParentsOf(n.id) \ Hidden
        IN  /\ visibleParents = {} => NodeLevel(n) = 0
            /\ (Acyclic /\ visibleParents # {}) =>
                  NodeLevel(n) = 1 + MaxOf({NodeLevel(NodeOf(p)) : p \in visibleParents})
            /\ n.position.y = IndexAmongDisplayed(i) * 120 + (NodeLevel(n) % 2) * 60

----------------------------------------------------------------------------
(* C8: the parents and children lists of every displayed node name no      *)
(* hidden table; they list the node's visible parents and children.        *)

C8_NoHiddenInNodeLists ==
    \A i \in DOMAIN nodes :
        /\ Range(nodes[i].parents) \cap Hidden = {}
        /\ Range(nodes[i].children) \cap Hidden = {}
        /\ Range(nodes[i].parents) = ParentsOf(nodes[i].id) \ Hidden
        /\ Range(nodes[i].children) = ChildrenOf(nodes[i].id) \ Hidden

\* a displayed node has a hidden parent and a displayed node has a hidden child
C8_Witness ==
    /\ \E i \in DOMAIN nodes : ParentsOf(nodes[i].id) \cap Hidden # {}
    /\ \E i \in DOMAIN nodes : ChildrenOf(nodes[i].id) \cap Hidden # {}
    /\ \E i \in DOMAIN nodes : nodes[i].parents # <<>>

----------------------------------------------------------------------------
(* Vocabulary of the filter properties *)

Data == rowObjects(csvData)

Columns == Range(columns(csvData))

\* the values column c takes in the unfiltered rows
ValuesOf(c) == {StringOf(row, c) : row \in Range(Data)}

\* row satisfies the filter of every column other than c
PassesOthers(row, c) ==
    \A col \in DOMAIN filters \ {c} :
        filters[col] = <<>> \/ StringOf(row, col) \in Range(filters[col])

Available(c) == getAvailableValues(Data, filters, c)

----------------------------------------------------------------------------
(* C9: for every column and filter state, the available values of the      *)
(* column are exactly the values it takes in the rows that pass every      *)
(* other column's filter, each listed once, in ascending order.            *)

C9_AvailableValues ==
    \A c \in Columns :
        LET av == Available(c)
        IN  /\ Range(av) = {StringOf(row, c) : row \in {r \in Range(Data) : PassesOthers(r, c)}}
            /\ \A i, j \in DOMAIN av : i < j => StrLess(av[i], av[j])

\* a filter on one column narrows another column's list, and a list of two
\* values is sorted against their order of appearance in the rows
C9_Witness ==
    \E c, d \in Columns :
        /\ c # d
        /\ Selected(filters, d) # <<>>
        /\ Cardinality(ValuesOf(c)) = 2
        /\ Len(Available(c)) = 1
        /\ Len(Available(d)) = 2
        /\ StringOf(Data[1], d) = Available(d)[2]

----------------------------------------------------------------------------
(* C10: the available values of a column do not depend on the column's own *)
(* selection: replacing that selection by any other leaves them unchanged. *)

\* the selections of column c tried in place of the current one
OtherSelections(c) ==
    {<<>>} \cup {<<v>> : v \in ValuesOf(c) \cup {Undefined}}
           \cup {<<v, w>> : v \in ValuesOf(c), w \in ValuesOf(c)}

C10_OwnSelectionIgnored ==
    \A c \in Columns :
        \A sel \in OtherSelections(c) :
            getAvailableValues(Data, (c :> sel) @@ filters, c) = Available(c)

\* a column with a selection still offers a value outside that selection
C10_Witness ==
    \E c \in Columns :
        /\ Selected(filters, c) # <<>>
        /\ \E v \in Range(Available(c)) : ~Includes(Selected(filters, c), v)
        /\ \E d \in Columns \ {c} : Selected(filters, d) # <<>>

----------------------------------------------------------------------------
(* C11: select all on a column sets its selection to exactly the available *)
(* values whenever the selection it finds is not equal, as a set, to the   *)
(* available values, and clears it only when it is equal; a selection of   *)
(* the same size holding values that are no longer available is not equal. *)

C11_SelectAllBySetEquality ==
    undo.phase = "selectAll" =>
        Selected(filters, undo.id) =
            IF Range(undo.found) = Range(Available(undo.id))
            THEN <<>> ELSE Available(undo.id)

----------------------------------------------------------------------------
(* C12: select all applied to a column twice in a row, with no other       *)
(* operation in between, leaves the column's selection empty.              *)

C12_TwiceIsEmpty ==
    (undo.phase = "selectAll" /\ undo.twice) => Selected(filters, undo.id) = <<>>

(* C12 as amended: after two select all in a row the selection is empty    *)
(* when the first call selected the available values; when the first call  *)
(* cleared a fully selected column, the second selects them again.         *)

C12_TwiceTogglesBack ==
    (undo.phase = "selectAll" /\ undo.twice) =>
        Selected(filters, undo.id) =
            IF undo.found = Available(undo.id) THEN <<>> ELSE Available(undo.id)

\* a second select all in a row has cleared a column that the first one filled
\* with its two available values, while another column is filtered
C12_Witness ==
    /\ undo.phase = "selectAll" /\ undo.twice
    /\ undo.found # <<>>
    /\ Selected(filters, undo.id) = <<>>
    /\ Len(Available(undo.id)) = 2
    /\ \E d \in Columns \ {undo.id} : Selected(filters, d) # <<>>

----------------------------------------------------------------------------
(* C13: the rows handed to the graph builder and the table are exactly the *)
(* rows the filter engine's predicate keeps when no column is excluded (a  *)
(* row is kept iff every column's selection is empty or contains the row's *)
(* value for the column), also for rows shorter than the header and for    *)
(* headers with a repeated column name.                                    *)

\* the excludeColumn argument left out
NoColumn == "<none>"

\* the data rows whose row object getFilteredData() keeps
KeptByEngine ==
    LET rowIndexes == [i \in DOMAIN Data |-> i]
        kept == SelectSeq(rowIndexes,
                          LAMBDA i : getFilteredData(<<Data[i]>>, filters, NoColumn) # <<>>)
    IN  Map(kept, LAMBDA i : csvData[i + 1])

C13_HandedRowsAreEngineRows ==
    Tail(filteredCsvData(csvData, filters)) = KeptByEngine

----------------------------------------------------------------------------
(* Vocabulary of the load properties *)

\* the canonical columns that no cell of the header matches once both are
\* lower-cased and stripped of whitespace
MissingColumns(headers) ==
    {Header[i] : i \in {j \in DOMAIN Header :
        \A k \in DOMAIN headers :
            stripSpaces(toLowerCase(headers[k])) # stripSpaces(toLowerCase(Header[j]))}}

\* the step that completes a Generate Lineage
GenerateCompletes == reading # NoFile /\ reading' = NoFile /\ toast' # NoToast

----------------------------------------------------------------------------
(* C14: when the header of the grid read lacks one of the five canonical   *)
(* columns, the load reports a structural validation failure and leaves    *)
(* csvData, showResults and showLineageGraph as they were; no graph is     *)
(* built or shown.                                                         *)

C14_FailedLoadChangesNothing ==
    [][(/\ GenerateCompletes
        /\ Len(reading.grid) > 0
        /\ MissingColumns(reading.grid[1]) # {})
       => /\ toast' = FormatToast
          /\ UNCHANGED <<csvData, showResults, showLineageGraph, nodes, edges>>
          /\ ~showResults'
          /\ nodes' = <<>> /\ edges' = <<>>]_vars

\* a load was rejected while the grid of an earlier load is still in csvData
C14_Witness ==
    /\ undo.phase = "rejected"
    /\ toast = FormatToast
    /\ Len(csvData) > 1
    /\ ~showResults

----------------------------------------------------------------------------
(* C15: a structural validation failure names exactly the canonical        *)
(* columns missing from the header; for a header that lacks only           *)
(* relationship it names relationship alone.                               *)

C15_NamesMissingColumns ==
    (undo.phase = "rejected" /\ toast.title = FormatToast.title) =>
        Range(toast.columns) = MissingColumns(undo.headers)

----------------------------------------------------------------------------
(* C16: a header accepted by the validation of the load resolves all five  *)
(* canonical column indexes in the graph builder, so an accepted grid with *)
(* a data row never gives an empty graph on account of the columns.        *)

C16_AcceptedHeaderResolves ==
    (showResults /\ showLineageGraph /\ Len(csvData) > 0
        /\ validateCSVStructure(csvData[1])) =>
        /\ \A k \in DOMAIN columnIndexes(csvData) : columnIndexes(csvData)[k] # 0
        /\ (Len(csvData) > 1 /\ filters = <<>> /\ hiddenNodes = <<>>) => nodes # <<>>

----------------------------------------------------------------------------
(* C17: when the stored hash differs from the hash of the dataset being    *)
(* loaded, the view state after the load is empty: the persisted record    *)
(* holds the new hash, no hidden node and no position, and the graph is    *)
(* displayed with no node hidden and no manual position.                   *)

C17_StaleStateDiscarded ==
    (undo.phase = "mounted" /\ undo.loaded.state.csvHash # committedCsvHash) =>
        /\ stored = ItemOf([csvHash |-> committedCsvHash, hiddenNodes |-> <<>>,
                            nodePositions |-> <<>>])
        /\ hiddenNodes = <<>>
        /\ state.nodePositions = <<>>

----------------------------------------------------------------------------
(* C18: the dataset hash is a function of the full grid: a grid that       *)
(* differs from the displayed one in exactly one cell, header or data, has *)
(* a different hash.                                                       *)

\* the values a changed cell takes
CellValues == Names \cup Types \cup Rels \cup HeaderCells

\* the grids that differ from grid in exactly one cell
OneCellChanges(grid) ==
    {[grid EXCEPT ![i][j] = v] :
        <<i, j, v>> \in {t \in (DOMAIN grid) \X (1..Len(Header)) \X CellValues :
                            t[2] \in DOMAIN grid[t[1]] /\ grid[t[1]][t[2]] # t[3]}}

C18_OneCellChangesHash ==
    (showResults /\ showLineageGraph) =>
        LET shown == filteredCsvData(csvData, filters)
        IN  /\ generateCsvHash(shown) = committedCsvHash
            /\ \A other \in OneCellChanges(shown) : generateCsvHash(other) # committedCsvHash

----------------------------------------------------------------------------
(* C19: when the graph is mounted for a dataset whose hash equals the      *)
(* stored hash, after the effects of the mount the hidden set in use is    *)
(* the stored one and the persisted record still holds the stored hidden   *)
(* nodes and node positions.                                               *)

C19_MountRestores ==
    (undo.phase = "mounted" /\ undo.loaded.state.csvHash = committedCsvHash) =>
        /\ hiddenNodes = undo.loaded.state.hiddenNodes
        /\ stored = ItemOf([csvHash |-> committedCsvHash,
                            hiddenNodes |-> undo.loaded.state.hiddenNodes,
                            nodePositions |-> undo.loaded.state.nodePositions])
        /\ stored = ItemOf(state)

\* the page had no hidden node when the graph was mounted on a record that
\* holds a hidden node and a position, and a node is displayed at that position
C19_Witness ==
    /\ undo.phase = "mounted"
    /\ undo.loaded.state.csvHash = committedCsvHash
    /\ undo.hidden = <<>>
    /\ undo.loaded.state.hiddenNodes # <<>>
    /\ \E i \in DOMAIN nodes :
          /\ nodes[i].id \in DOMAIN undo.loaded.state.nodePositions
          /\ nodes[i].position = undo.loaded.state.nodePositions[nodes[i].id]

----------------------------------------------------------------------------
(* C20: loading the view state never throws and returns a record with its  *)
(* three fields for every content of the store: no item, a text that does  *)
(* not parse, a JSON value that is not an object, or an object that lacks  *)
(* fields, each missing field taking its default {} / [] / ''.             *)

\* the record expected from an item
ExpectedState(item) ==
    IF item.kind = "object"
    THEN [k \in DOMAIN DefaultState |->
            IF k \in DOMAIN item.fields THEN item.fields[k] ELSE DefaultState[k]]
    ELSE DefaultState

----------------------------------------------------------------------------
(* C21: over drags, hides, reveals and filter changes on one dataset, a     *)
(* displayed node that has a stored position is emitted at exactly that    *)
(* position, and a stored position stays stored until a drag of the same   *)
(* node replaces it, so a node that reappears after a hide or a filter     *)
(* change is again at its manual position and not at the computed one.     *)

\* the ids of the nodes the change batch recorded in h moved
DraggedIn(h) ==
    IF h.phase = "dragged" THEN {h.changes[k].id : k \in DOMAIN h.changes} ELSE {}

C21_StoredPositionApplied ==
    [][/\ \A i \in DOMAIN nodes' :
             nodes'[i].id \in DOMAIN state'.nodePositions
                 => nodes'[i].position = state'.nodePositions[nodes'[i].id]
       /\ \A id \in (DOMAIN state.nodePositions) \ DraggedIn(undo') :
             /\ id \in DOMAIN state'.nodePositions
             /\ state'.nodePositions[id] = state.nodePositions[id]]_vars

\* a node dragged earlier has just been revealed and is displayed at its
\* stored position
C21_Witness ==
    /\ undo.phase = "restored"
    /\ undo.id \in DOMAIN state.nodePositions
    /\ \E i \in DOMAIN nodes :
          nodes[i].id = undo.id /\ nodes[i].position = state.nodePositions[undo.id]

----------------------------------------------------------------------------
(* C22: after a change batch that moves several distinct nodes, the         *)
(* persisted nodePositions holds the new position of every node of the     *)
(* batch, and the positions stored before for the other nodes.             *)

C22_BatchPersisted ==
    [][undo'.phase = "dragged" =>
         /\ stored'.kind = "object"
         /\ \A k \in DOMAIN undo'.changes :
               /\ undo'.changes[k].id \in DOMAIN stored'.fields.nodePositions
               /\ stored'.fields.nodePositions[undo'.changes[k].id]
                      = undo'.changes[k].position
         /\ \A id \in (DOMAIN state.nodePositions) \ DraggedIn(undo') :
               /\ id \in DOMAIN stored'.fields.nodePositions
               /\ stored'.fields.nodePositions[id] = state.nodePositions[id]]_vars

----------------------------------------------------------------------------
(* C23: updateState merges a partial update into the full record.  A change *)
(* batch names nodePositions and leaves hiddenNodes and csvHash as they    *)
(* were; a hide or reveal names hiddenNodes and leaves nodePositions and   *)
(* csvHash as they were; and after each of them the record in the store is *)
(* the in-memory view state.                                               *)

C23_UpdateMerges ==
    [][/\ undo'.phase = "dragged" =>
             state'.hiddenNodes = state.hiddenNodes /\ state'.csvHash = state.csvHash
       /\ hiddenNodes' # hiddenNodes =>
             /\ state'.hiddenNodes = hiddenNodes'
             /\ state'.nodePositions = state.nodePositions
             /\ state'.csvHash = state.csvHash
       /\ stored' = ItemOf(state')]_vars

\* a node has just been hidden while another one has a stored position
C23_Witness ==
    /\ undo.phase = "hid"
    /\ state.hiddenNodes = <<undo.id>>
    /\ DOMAIN state.nodePositions # {}
    /\ stored = ItemOf(state)

----------------------------------------------------------------------------
(* C24: no bypass edge crosses a link to a hidden node: every bypass edge   *)
(* "via h" runs from a visible parent of the hidden node h to a visible    *)
(* child of h, so a hidden node with no visible parent or no visible child *)
(* contributes none, and in the chain p -> a -> b -> c with a and b hidden  *)
(* there is no edge from p to c.                                           *)

BypassVia(h) == SelectSeq(edges, LAMBDA e : e.id[1] = "e-bypass-" /\ e.relationship = "via " \o h)

C24_NoBypassAcrossHidden ==
    /\ \A i \in DOMAIN BypassEdges :
          \E h \in Hidden \cap Tables :
             /\ BypassEdges[i].relationship = "via " \o h
             /\ BypassEdges[i].source \in ParentsOf(h) \ Hidden
             /\ BypassEdges[i].target \in ChildrenOf(h) \ Hidden
    /\ \A h \in Hidden :
          (ParentsOf(h) \ Hidden = {} \/ ChildrenOf(h) \ Hidden = {}) => BypassVia(h) = <<>>
    /\ (csvData = ChainGrid /\ {"a", "b"} \subseteq Hidden) =>
          \A i \in DOMAIN edges : ~(edges[i].source = "p" /\ edges[i].target = "c")

\* the chain with a and b hidden, p and c displayed
C24_Witness ==
    /\ csvData = ChainGrid
    /\ Hidden = {"a", "b"}
    /\ Displayed = {"p", "c"}
    /\ edges = <<>>

----------------------------------------------------------------------------
(* C25: every node without a stored position is placed at x = level * 300,  *)
(* y = indexWithinLevel * 120 + (level mod 2) * 60, where indexWithinLevel *)
(* numbers the nodes of the level 0, 1, 2, ... in the order in which the   *)
(* tables first appear in the scanned rows.  Stated for a graph with no    *)
(* node hidden, where the nodes of a level are all the tables of the level.*)

\* the place of the first mention of t in the scanned rows; a row mentions its
\* parent before its child
Appearance(t) ==
    LET mentions == {2 * i - 1 : i \in {j \in DOMAIN Rows : Rows[j].parentTableName = t}}
                       \cup {2 * i : i \in {j \in DOMAIN Rows : Rows[j].childTableName = t}}
    IN  CHOOSE m \in mentions : \A n \in mentions : m <= n

IndexWithinLevel(t) ==
    Cardinality({u \in Tables : LevelOf(u) = LevelOf(t) /\ Appearance(u) < Appearance(t)})

C25_PositionFormula ==
    hiddenNodes = <<>> =>
        \A i \in DOMAIN nodes :
            nodes[i].id \notin DOMAIN state.nodePositions =>
                nodes[i].position =
                    [x |-> LevelOf(nodes[i].id) * 300,
                     y |-> IndexWithinLevel(nodes[i].id) * 120
                               + (LevelOf(nodes[i].id) % 2) * 60]

----------------------------------------------------------------------------
(* C26: when rows give a table conflicting types, the node's tableType is   *)
(* the type given by the last row, in row order, that mentions the table.  *)

\* the type the last mention of t gives it
LastType(t) ==
    LET i == CHOOSE k \in DOMAIN Rows :
                 /\ t \in {Rows[k].parentTableName, Rows[k].childTableName}
                 /\ \A j \in DOMAIN Rows :
                       t \in {Rows[j].parentTableName, Rows[j].childTableName} => j <= k
    IN  IF Rows[i].childTableName = t THEN Rows[i].childTableType
        ELSE Rows[i].parentTableType

C26_LastTypeWins ==
    \A i \in DOMAIN nodes : nodes[i].tableType = LastType(nodes[i].id)

----------------------------------------------------------------------------
(* C27: in every displayed graph, whatever the rows and the hidden set      *)
(* (hidden ids that name no table of the rows included), each visible      *)
(* table has exactly one node, no hidden table has a node, and every edge, *)
(* original or bypass, has its source and its target among the displayed   *)
(* nodes.                                                                  *)

C27_NodesAndEdgesConsistent ==
    /\ \A t \in Visible : Cardinality({i \in DOMAIN nodes : nodes[i].id = t}) = 1
    /\ \A i \in DOMAIN nodes : nodes[i].id \in Visible
    /\ \A i \in DOMAIN edges :
          edges[i].source \in Displayed /\ edges[i].target \in Displayed

\* a hidden id names no table of the rows, a hidden table is bypassed, and
\* original and bypass edges are displayed
C27_Witness ==
    /\ Hidden \ Tables # {}
    /\ Hidden \cap Tables # {}
    /\ BypassEdges # <<>>
    /\ DirectEdges # <<>>

----------------------------------------------------------------------------
(* C28: under any interleaving of file select, file clear and the           *)
(* completion of Generate Lineage, whenever results are shown a file is    *)
(* selected and the displayed csvData was parsed from that file; a         *)
(* generate whose file is cleared or replaced before its read completes    *)
(* shows no results.                                                       *)

C28_ResultsOfSelectedFile ==
    showResults => selectedFile # NoFile /\ csvData = selectedFile.grid

----------------------------------------------------------------------------
(* C29: whenever the graph is mounted and its effects have run, the         *)
(* persisted hiddenNodes is the hidden set the displayed graph was built   *)
(* with, after any sequence of hides, reveals and changes of the dataset   *)
(* hash (a grid with another hash loaded while nodes are hidden).          *)

C29_PersistedHiddenIsHiddenInUse ==
    (showResults /\ showLineageGraph) =>
        /\ stored.kind = "object"
        /\ stored.fields.hiddenNodes = hiddenNodes
        /\ Displayed \cap Range(stored.fields.hiddenNodes) = {}

\* a grid was mounted on a record of another hash while nodes were hidden
C29_Witness ==
    /\ showResults /\ showLineageGraph
    /\ undo.phase = "mounted"
    /\ undo.loaded.state.csvHash # ""
    /\ undo.loaded.state.csvHash # committedCsvHash
    /\ hiddenNodes # <<>>
    /\ stored.fields.hiddenNodes = hiddenNodes

----------------------------------------------------------------------------
(* C30: after any sequence of next-page, previous-page and filter changes   *)
(* the table's currentPage lies between 1 and max(1, totalPages), so the   *)
(* displayed page is not empty whenever a row passes the filters.          *)

C30_PageInRange ==
    showResults =>
        LET shown == filteredCsvData(csvData, filters)
            pages == totalPages(shown)
        IN  /\ 1 <= currentPage
            /\ currentPage <= (IF pages > 1 THEN pages ELSE 1)
            /\ Len(shown) > 1 => paginatedRows(shown, currentPage) # <<>>

====
